---- MODULE Spec2Model ----
(***************************************************************************)
(* Model of the MNQ candle service (src/api/index.py): the timeframe       *)
(* transformations process_timeframe / create_30second_data and the        *)
(* single-date data path get_market_data that feeds them.                  *)
(*                                                                         *)
(* Units.  A timestamp is the number of half-minutes (30 s) since local    *)
(* midnight of the requested day, so 06:30 is 780 and 13:00 is 1560.  The  *)
(* `minutes` argument of process_timeframe is held in the same unit: 0.5   *)
(* minutes is 1, 1 minute is 2, 5 minutes is 10, 15 minutes is 30.         *)
(* A price is a number of sixteenths of a point: the tick of 0.25 is 4,    *)
(* input prices are multiples of 4, and the mid price (o + h + l + c) / 4  *)
(* is computed exactly.                                                    *)
(***************************************************************************)
EXTENDS Integers, Sequences, FiniteSets, TLC

VARIABLES DEPENDENCIES_AVAILABLE, pc, df, minutes, result, data, response,
          fetches, request, today, http, day, downloads, winrate_data, summary

(* The request of /api/mnq-data and its answer. *)
requestVars == <<request, today, http>>

(* The loop of calculate_first_candle_winrate and its answer. *)
winrateVars == <<day, downloads, winrate_data, summary>>

vars == <<DEPENDENCIES_AVAILABLE, pc, df, minutes, result, data, response,
          fetches, request, today, http, day, downloads, winrate_data, summary>>

-----------------------------------------------------------------------------
(* Bounds of the model. *)

MaxBars == 2

MaxVol == 3

(* Length of the win-rate window, the argument days (the route passes the  *)
(* default of 7).                                                          *)
days == 2

(* Program constants, in half-minutes. *)

HalfMinute == 1

OneMinute == 2

FiveMinutes == 10

FifteenMinutes == 30

WindowOpen == 780

WindowClose == 1560

Midnight == 0

(* What an aggregate of no value is (pandas NaN); no price of the model. *)
NaN == 0 - 1

-----------------------------------------------------------------------------
(* The inputs: what the provider may return for one day. *)

(* Two price levels order any two prices either way; the mid price of a    *)
(* bar then takes every level from 4 to 8.                                 *)
Prices == {4, 8}

Volumes == 0..MaxVol

(* 06:29, 06:30, 06:30:30, 06:31, 06:35, 06:45.  One time lies before the  *)
(* window; 06:30:30 is a bar off the minute grid, as the provider stamps   *)
(* the running bar of a live session with the time of its last trade.     *)
Times == {778, 780, 781, 782, 790, 810}

Min(S) == CHOOSE x \in S : \A y \in S : x <= y

Max(S) == CHOOSE x \in S : \A y \in S : x >= y

RECURSIVE SortedSeq(_)
SortedSeq(S) == IF S = {} THEN <<>> ELSE <<Min(S)>> \o SortedSeq(S \ {Min(S)})

(* A bar varies its four prices (any of them, also an open or close        *)
(* outside low..high, as the provider is not checked) or its volume.       *)
PriceBars == [open : Prices, high : Prices, low : Prices, close : Prices, volume : {1}]

VolumeBars == [open : {8}, high : {8}, low : {4}, close : {4}, volume : Volumes]

OHLCV == PriceBars \cup VolumeBars

Row(t, b) ==
    [timestamp |-> t, open |-> b.open, high |-> b.high, low |-> b.low,
     close |-> b.close, volume |-> b.volume]

(* A frame is a provider answer: bars in strictly increasing time order,   *)
(* here the bars f[1], f[2], ... at the times of S.                        *)
Frame(S, f) ==
    LET ts == SortedSeq(S)
    IN  [i \in 1..Len(ts) |-> Row(ts[i], f[i])]

TimeSets == {T \in SUBSET Times : Cardinality(T) <= MaxBars}

-----------------------------------------------------------------------------
(* pd.Timestamp(t).isoformat(): the instant as hh:mm:ss text, here the     *)
(* triple <<hh, mm, ss>>; date and zone offset are the same for every bar  *)
(* of the day.                                                             *)
isoformat(t) == <<t \div 120, (t \div 2) % 60, (t % 2) * 30>>

(* The instant an ISO text denotes. *)
Instant(iso) == (iso[1] * 60 + iso[2]) * 2 + (iso[3] \div 30)

mid_price(row) == (row.open + row.high + row.low + row.close) \div 4

MaxOf(a, b) == IF a >= b THEN a ELSE b

MinOf(a, b) == IF a <= b THEN a ELSE b

(* first_candle whose high is the mid price, not the larger of the two. *)
first_candle_high_mid(row) ==
    [timestamp |-> isoformat(row.timestamp),
     open |-> row.open,
     high |-> mid_price(row),
     low |-> MinOf(row.low, mid_price(row)),
     close |-> mid_price(row),
     volume |-> row.volume \div 2]

(* first_candle whose half volume is rounded up. *)
first_candle_ceil_volume(row) ==
    [timestamp |-> isoformat(row.timestamp),
     open |-> row.open,
     high |-> MaxOf(row.high, mid_price(row)),
     low |-> MinOf(row.low, mid_price(row)),
     close |-> mid_price(row),
     volume |-> (row.volume + 1) \div 2]

first_candle(row) ==
    [timestamp |-> isoformat(row.timestamp),
     open |-> row.open,
     high |-> MaxOf(row.high, mid_price(row)),
     low |-> MinOf(row.low, mid_price(row)),
     close |-> mid_price(row),
     volume |-> row.volume \div 2]

(* second_candle stamped with the base bar's own time. *)
second_candle_same_time(row) ==
    [timestamp |-> isoformat(row.timestamp),
     open |-> mid_price(row),
     high |-> MaxOf(row.high, mid_price(row)),
     low |-> MinOf(row.low, mid_price(row)),
     close |-> row.close,
     volume |-> row.volume \div 2]

second_candle(row) ==
    [timestamp |-> isoformat(row.timestamp + HalfMinute),
     open |-> mid_price(row),
     high |-> MaxOf(row.high, mid_price(row)),
     low |-> MinOf(row.low, mid_price(row)),
     close |-> row.close,
     volume |-> row.volume \div 2]

RECURSIVE create_30second_data(_)

(* create_30second_data that puts each new pair in front of the list. *)
create_30second_data_prepend(d) ==
    IF d = <<>> THEN <<>>
    ELSE create_30second_data(Tail(d)) \o <<first_candle(Head(d)), second_candle(Head(d))>>

create_30second_data(d) ==
    IF d = <<>> THEN <<>>
    ELSE <<first_candle(Head(d)), second_candle(Head(d))>> \o create_30second_data(Tail(d))

-----------------------------------------------------------------------------
(* df.set_index('timestamp').resample(f'{minutes}min').agg(...).dropna()   *)

(* The resampler orders the rows by time first (a stable sort). *)
RECURSIVE insert_by_time(_, _)
insert_by_time(row, sorted) ==
    IF sorted = <<>> THEN <<row>>
    ELSE IF row.timestamp < Head(sorted).timestamp THEN <<row>> \o sorted
    ELSE <<Head(sorted)>> \o insert_by_time(row, Tail(sorted))

RECURSIVE sort_by_time(_)
sort_by_time(d) ==
    IF d = <<>> THEN <<>>
    ELSE insert_by_time(d[Len(d)], sort_by_time(SubSeq(d, 1, Len(d) - 1)))

(* Bins counted from the first row's time (origin = 'start'). *)
resample_origin_first_row(d) == Min({d[i].timestamp : i \in DOMAIN d})

(* Bins are counted from midnight of the first day (origin = 'start_day', *)
(* the default), whatever the rows are.                                    *)
resample_origin(d) == Midnight

(* bucket that labels a bin by its right edge. *)
bucket_right_label(t, m, origin) == origin + ((t - origin) \div m + 1) * m

(* Bins are left-closed and labelled by their left edge. *)
bucket(t, m, origin) == origin + ((t - origin) \div m) * m

(* Every bin from the first row's to the last row's, empty or not. *)
bin_labels(d, m) ==
    LET lo == bucket(Min({d[i].timestamp : i \in DOMAIN d}), m, resample_origin(d))
        hi == bucket(Max({d[i].timestamp : i \in DOMAIN d}), m, resample_origin(d))
    IN  [k \in 1..((hi - lo) \div m + 1) |-> lo + (k - 1) * m]

RECURSIVE MaxHigh(_)
MaxHigh(rows) ==
    IF Len(rows) = 1 THEN rows[1].high ELSE MaxOf(rows[1].high, MaxHigh(Tail(rows)))

RECURSIVE MinLow(_)
MinLow(rows) ==
    IF Len(rows) = 1 THEN rows[1].low ELSE MinOf(rows[1].low, MinLow(Tail(rows)))

RECURSIVE SumVolume(_)
SumVolume(rows) ==
    IF rows = <<>> THEN 0 ELSE rows[1].volume + SumVolume(Tail(rows))

(* agg with the close taken from the first row of the bin. *)
agg_close_first(rows, label) ==
    IF rows = <<>>
    THEN [timestamp |-> label, open |-> NaN, high |-> NaN, low |-> NaN,
          close |-> NaN, volume |-> 0]
    ELSE [timestamp |-> label,
          open |-> rows[1].open,
          high |-> MaxHigh(rows),
          low |-> MinLow(rows),
          close |-> rows[1].close,
          volume |-> SumVolume(rows)]

(* agg with the high taken from the first row of the bin. *)
agg_high_first(rows, label) ==
    IF rows = <<>>
    THEN [timestamp |-> label, open |-> NaN, high |-> NaN, low |-> NaN,
          close |-> NaN, volume |-> 0]
    ELSE [timestamp |-> label,
          open |-> rows[1].open,
          high |-> rows[1].high,
          low |-> MinLow(rows),
          close |-> rows[Len(rows)].close,
          volume |-> SumVolume(rows)]

(* open: first, high: max, low: min, close: last, volume: sum. *)
agg(rows, label) ==
    IF rows = <<>>
    THEN [timestamp |-> label, open |-> NaN, high |-> NaN, low |-> NaN,
          close |-> NaN, volume |-> 0]
    ELSE [timestamp |-> label,
          open |-> rows[1].open,
          high |-> MaxHigh(rows),
          low |-> MinLow(rows),
          close |-> rows[Len(rows)].close,
          volume |-> SumVolume(rows)]

has_nan(row) ==
    row.open = NaN \/ row.high = NaN \/ row.low = NaN \/ row.close = NaN

(* No dropna: the rows of the empty bins stay. *)
dropna_keep_all(rows) == rows

(* dropna that also drops the bins without volume. *)
dropna_zero_volume(rows) == SelectSeq(rows, LAMBDA r : ~has_nan(r) /\ r.volume # 0)

dropna(rows) == SelectSeq(rows, LAMBDA r : ~has_nan(r))

resample(d, m) ==
    IF d = <<>> THEN <<>>
    ELSE LET sorted == sort_by_time(d)
             labels == bin_labels(d, m)
         IN  dropna([k \in DOMAIN labels |->
                        agg(SelectSeq(sorted, LAMBDA r :
                                bucket(r.timestamp, m, resample_origin(d)) = labels[k]),
                            labels[k])])

(* to_dict('records') followed by the ISO conversion of each timestamp. *)
to_records(rows) == [i \in DOMAIN rows |-> [rows[i] EXCEPT !.timestamp = isoformat(@)]]

(* process_timeframe without the 1-minute pass-through branch. *)
process_timeframe_always_resample(deps, d, m) ==
    IF ~deps THEN <<>>
    ELSE IF m = HalfMinute THEN create_30second_data(d)
    ELSE to_records(resample(d, m))

process_timeframe(deps, d, m) ==
    IF ~deps THEN <<>>
    ELSE IF m = HalfMinute THEN create_30second_data(d)
    ELSE IF m = OneMinute THEN to_records(d)
    ELSE to_records(resample(d, m))

-----------------------------------------------------------------------------
(* get_market_data: fetch, keep the trading window, build the timeframes.  *)

between_time(d) ==
    SelectSeq(d, LAMBDA r : WindowOpen <= r.timestamp /\ r.timestamp <= WindowClose)

(* market_frame without the between_time filter. *)
market_frame_unfiltered(d) == d

market_frame(d) == IF between_time(d) = <<>> THEN d ELSE between_time(d)

no_data == [k \in {"30s", "5m", "15m"} |-> <<>>]

(* The synthesized bars read back as a frame. *)
synthetic_frame(d) ==
    [j \in DOMAIN create_30second_data(d) |->
        [create_30second_data(d)[j] EXCEPT !.timestamp = Instant(@)]]

(* timeframes that aggregates the synthesized 30-second bars. *)
timeframes_from_synthetic(deps, d) ==
    [k \in {"30s", "5m", "15m"} |->
        IF k = "30s" THEN process_timeframe(deps, d, HalfMinute)
        ELSE IF k = "5m" THEN process_timeframe(deps, synthetic_frame(d), FiveMinutes)
        ELSE process_timeframe(deps, synthetic_frame(d), FifteenMinutes)]

timeframes(deps, d) ==
    [k \in {"30s", "5m", "15m"} |->
        IF k = "30s" THEN process_timeframe(deps, d, HalfMinute)
        ELSE IF k = "5m" THEN process_timeframe(deps, d, FiveMinutes)
        ELSE process_timeframe(deps, d, FifteenMinutes)]

(* get_market_data without the data.empty check: the empty answer fails   *)
(* in the steps that follow and ends in the except branch.                 *)
get_market_data_no_empty_check(deps, fetch) ==
    IF ~deps
    THEN [error |-> "Dependencies not available",
          message |-> "yfinance, pandas, or pytz not installed", data |-> no_data]
    ELSE IF fetch.raised \/ fetch.frame = <<>>
    THEN [error |-> "Data fetch failed", message |-> "str(e)", data |-> no_data]
    ELSE [success |-> TRUE, data |-> timeframes(deps, market_frame(fetch.frame))]

(* get_market_data whose except branch answers like the empty fetch. *)
get_market_data_except_as_empty(deps, fetch) ==
    IF ~deps
    THEN [error |-> "Dependencies not available",
          message |-> "yfinance, pandas, or pytz not installed", data |-> no_data]
    ELSE IF fetch.raised \/ fetch.frame = <<>>
    THEN [error |-> "No data available",
          message |-> "Yahoo Finance typically only provides intraday data for the last 7 days.",
          data |-> no_data]
    ELSE [success |-> TRUE, data |-> timeframes(deps, market_frame(fetch.frame))]

(* fetch is the provider's answer to ticker.history(...). *)
get_market_data(deps, fetch) ==
    IF ~deps
    THEN [error |-> "Dependencies not available",
          message |-> "yfinance, pandas, or pytz not installed", data |-> no_data]
    ELSE IF fetch.raised
    THEN [error |-> "Data fetch failed", message |-> "str(e)", data |-> no_data]
    ELSE IF fetch.frame = <<>>
    THEN [error |-> "No data available",
          message |-> "Yahoo Finance typically only provides intraday data for the last 7 days.",
          data |-> no_data]
    ELSE [success |-> TRUE, data |-> timeframes(deps, market_frame(fetch.frame))]

-----------------------------------------------------------------------------
(* get_mnq_data: the /api/mnq-data route.  The date parameter is missing,  *)
(* empty, a text that is no date, or the text of a month and a day in a    *)
(* year of 366 days whose 1 January is a Monday.  A date is the day of     *)
(* that year, 1 January = 1.                                               *)

MonthDays == <<31, 29, 31, 30, 31, 30, 31, 31, 30, 31, 30, 31>>

RECURSIVE DaysBefore(_)
DaysBefore(m) == IF m = 1 THEN 0 ELSE DaysBefore(m - 1) + MonthDays[m - 1]

(* `if date_param:` is false for a missing and for an empty parameter. *)
date_given(p) == p.kind \notin {"missing", "empty"}

(* strptime(date_param, '%Y-%m-%d') raises ValueError unless this holds. *)
strptime_ok(p) ==
    /\ p.kind = "ymd"
    /\ p.month \in 1..12
    /\ p.day \in 1..MonthDays[p.month]

strptime(p) == DaysBefore(p.month) + p.day

strftime(n) ==
    LET m == CHOOSE k \in 1..12 : DaysBefore(k) < n /\ n <= DaysBefore(k) + MonthDays[k]
    IN  <<m, n - DaysBefore(m)>>

(* date.weekday(): Monday is 0, Sunday is 6. *)
weekday(n) == (n - 1) % 7

default_date(deps, now) ==
    IF deps
    THEN IF weekday(now) >= 5 THEN now - (weekday(now) - 4) ELSE now
    ELSE now

market_hours ==
    [open |-> <<6, 30, 0>>, close |-> <<13, 0, 0>>, timezone |-> "America/Los_Angeles"]

not_called == [called |-> FALSE]

(* get_mnq_data that falls back to the default date when the parameter    *)
(* does not parse.                                                         *)
get_mnq_data_default_on_invalid(deps, p, now, fetch) ==
    LET target_date == IF date_given(p) /\ strptime_ok(p) THEN strptime(p)
                       ELSE default_date(deps, now)
        market_data_result == get_market_data(deps, fetch)
    IN  IF "error" \in DOMAIN market_data_result
        THEN [status |-> 404,
              body |-> [error |-> market_data_result.error,
                        message |-> market_data_result.message,
                        date |-> strftime(target_date),
                        data |-> market_data_result.data],
              market_data_result |-> market_data_result]
        ELSE [status |-> 200,
              body |-> [date |-> strftime(target_date),
                        market_hours |-> market_hours,
                        data |-> market_data_result.data],
              market_data_result |-> market_data_result]

(* The answer is the status, the JSON body, and the result of the call of  *)
(* get_market_data (not_called when the route returns before it).          *)
get_mnq_data(deps, p, now, fetch) ==
    IF date_given(p) /\ ~strptime_ok(p)
    THEN [status |-> 400,
          body |-> [error |-> "Invalid date format", message |-> "Use YYYY-MM-DD format"],
          market_data_result |-> not_called]
    ELSE
    LET target_date == IF date_given(p) THEN strptime(p) ELSE default_date(deps, now)
        market_data_result == get_market_data(deps, fetch)
    IN  IF "error" \in DOMAIN market_data_result
        THEN [status |-> 404,
              body |-> [error |-> market_data_result.error,
                        message |-> market_data_result.message,
                        date |-> strftime(target_date),
                        data |-> market_data_result.data],
              market_data_result |-> market_data_result]
        ELSE [status |-> 200,
              body |-> [date |-> strftime(target_date),
                        market_hours |-> market_hours,
                        data |-> market_data_result.data],
              market_data_result |-> market_data_result]

-----------------------------------------------------------------------------
(* The state machine.  data is the provider's answer for the day: a frame  *)
(* (maybe an empty one), or the call raises.                               *)

Intervals == {HalfMinute, OneMinute, FiveMinutes, FifteenMinutes}

Init ==
    /\ DEPENDENCIES_AVAILABLE \in BOOLEAN
    /\ \/ \E S \in TimeSets : \E f \in [1..Cardinality(S) -> OHLCV] :
             data = [raised |-> FALSE, frame |-> Frame(S, f)]
       \/ data = [raised |-> TRUE, frame |-> <<>>]
    /\ pc = "start"
    /\ df = <<>>
    /\ minutes = 0
    /\ result = <<>>
    /\ response = <<>>
    /\ fetches = 0
    /\ request = [kind |-> "missing", month |-> 0, day |-> 0]
    /\ today = 0
    /\ http = <<>>
    /\ day = 0
    /\ downloads = <<>>
    /\ winrate_data = <<>>
    /\ summary = <<>>

(* One call of process_timeframe on the day's frame; the program builds    *)
(* frames only after the dependency check has passed.                      *)
ProcessTimeframe ==
    /\ pc = "start"
    /\ DEPENDENCIES_AVAILABLE
    /\ ~data.raised
    /\ \E m \in Intervals :
          /\ minutes' = m
          /\ result' = process_timeframe(DEPENDENCIES_AVAILABLE, data.frame, m)
    /\ df' = data.frame
    /\ pc' = "called"
    /\ UNCHANGED <<DEPENDENCIES_AVAILABLE, data, response, fetches, requestVars, winrateVars>>

GetMarketData ==
    /\ pc = "start"
    /\ df' = IF DEPENDENCIES_AVAILABLE /\ ~data.raised
             THEN market_frame(data.frame) ELSE <<>>
    /\ response' = get_market_data(DEPENDENCIES_AVAILABLE, data)
    /\ fetches' = IF DEPENDENCIES_AVAILABLE THEN fetches + 1 ELSE fetches
    /\ pc' = "served"
    /\ UNCHANGED <<DEPENDENCIES_AVAILABLE, data, minutes, result, requestVars, winrateVars>>

Next == ProcessTimeframe \/ GetMarketData

(* process_timeframe checks nothing about minutes: any value other than    *)
(* 0.5 and 1 goes to resample as the frequency f'{minutes}min'.  The       *)
(* resampler accepts a fractional frequency (1.5 minutes is 90 seconds)    *)
(* and, on a frame with rows, raises on a frequency of zero when it       *)
(* divides by it to place the bin edges; a frame without rows gets its     *)
(* empty bins before any edge is computed.                                 *)
resample_raises(d, m) == m <= 0 /\ d # <<>>

(* The intervals above, 1.5 minutes (3 half-minutes) and 0 minutes. *)
AnyIntervals == Intervals \cup {3, 0}

(* One call of process_timeframe with any interval a caller may pass. *)
ProcessTimeframeAny ==
    /\ pc = "start"
    /\ DEPENDENCIES_AVAILABLE
    /\ ~data.raised
    /\ \E m \in AnyIntervals :
          /\ minutes' = m
          /\ IF resample_raises(data.frame, m)
             THEN result' = <<>> /\ pc' = "raised"
             ELSE /\ result' = process_timeframe(DEPENDENCIES_AVAILABLE, data.frame, m)
                  /\ pc' = "called"
    /\ df' = data.frame
    /\ UNCHANGED <<DEPENDENCIES_AVAILABLE, data, response, fetches, requestVars, winrateVars>>

NextInterval == ProcessTimeframeAny

SpecInterval == Init /\ [][NextInterval]_vars

-----------------------------------------------------------------------------
(* One request to /api/mnq-data.  The bars of the provider's answer all    *)
(* have one shape here; their times vary.                                  *)

DateParams ==
    {[kind |-> k, month |-> 0, day |-> 0] : k \in {"missing", "empty", "text"}}
    \cup {[kind |-> "ymd", month |-> md[1], day |-> md[2]] :
             md \in {<<6, 1>>, <<6, 3>>, <<6, 31>>, <<2, 29>>, <<2, 30>>, <<13, 1>>}}

(* Saturday 1 June to Friday 7 June. *)
Todays == strptime([month |-> 6, day |-> 1]) .. strptime([month |-> 6, day |-> 7])

RequestBar == [open |-> 4, high |-> 8, low |-> 4, close |-> 8, volume |-> 1]

InitRequest ==
    /\ DEPENDENCIES_AVAILABLE \in BOOLEAN
    /\ \/ \E S \in TimeSets :
             data = [raised |-> FALSE,
                     frame |-> Frame(S, [i \in 1..Cardinality(S) |-> RequestBar])]
       \/ data = [raised |-> TRUE, frame |-> <<>>]
    /\ request \in DateParams
    /\ today \in Todays
    /\ pc = "start"
    /\ df = <<>>
    /\ minutes = 0
    /\ result = <<>>
    /\ response = <<>>
    /\ fetches = 0
    /\ http = <<>>
    /\ day = 0
    /\ downloads = <<>>
    /\ winrate_data = <<>>
    /\ summary = <<>>

GetMnqData ==
    /\ pc = "start"
    /\ LET r == get_mnq_data(DEPENDENCIES_AVAILABLE, request, today, data)
           called == r.market_data_result # not_called
       IN  /\ http' = [status |-> r.status, body |-> r.body]
           /\ response' = IF called THEN r.market_data_result ELSE <<>>
           /\ fetches' = IF called /\ DEPENDENCIES_AVAILABLE THEN fetches + 1 ELSE fetches
           /\ df' = IF called /\ DEPENDENCIES_AVAILABLE /\ ~data.raised
                    THEN market_frame(data.frame) ELSE <<>>
    /\ pc' = "answered"
    /\ UNCHANGED <<DEPENDENCIES_AVAILABLE, data, minutes, result, request, today,
                   winrateVars>>

NextRequest == GetMnqData

SpecRequest == InitRequest /\ [][NextRequest]_vars

-----------------------------------------------------------------------------
(* calculate_first_candle_winrate.  A win rate is in tenths of a percent,  *)
(* a price of a record in hundredths of a point.                           *)

(* first_direction that calls a reference bar with close = open down. *)
first_direction_strict(first) == IF first.close > first.open THEN "up" ELSE "down"

first_direction(first) == IF first.close >= first.open THEN "up" ELSE "down"

(* tally that tests the low break before the high break. *)
tally_low_first(candle, first, direction) ==
    IF candle.low < first.low
    THEN IF direction = "down" THEN [wins |-> 1, losses |-> 0]
                               ELSE [wins |-> 0, losses |-> 1]
    ELSE IF candle.high > first.high
    THEN IF direction = "up" THEN [wins |-> 1, losses |-> 0]
                             ELSE [wins |-> 0, losses |-> 1]
    ELSE [wins |-> 0, losses |-> 0]

(* tally that counts a candle reaching the reference high or low, not     *)
(* only one going beyond it.                                               *)
tally_inclusive(candle, first, direction) ==
    IF candle.high >= first.high
    THEN IF direction = "up" THEN [wins |-> 1, losses |-> 0]
                             ELSE [wins |-> 0, losses |-> 1]
    ELSE IF candle.low <= first.low
    THEN IF direction = "down" THEN [wins |-> 1, losses |-> 0]
                               ELSE [wins |-> 0, losses |-> 1]
    ELSE [wins |-> 0, losses |-> 0]

(* What one later candle adds to wins and losses. *)
tally(candle, first, direction) ==
    IF candle.high > first.high
    THEN IF direction = "up" THEN [wins |-> 1, losses |-> 0]
                             ELSE [wins |-> 0, losses |-> 1]
    ELSE IF candle.low < first.low
    THEN IF direction = "down" THEN [wins |-> 1, losses |-> 0]
                               ELSE [wins |-> 0, losses |-> 1]
    ELSE [wins |-> 0, losses |-> 0]

(* The loop over candles_30s[1:]. *)
RECURSIVE count_trades(_, _, _)
count_trades(candles, first, direction) ==
    IF candles = <<>> THEN [wins |-> 0, losses |-> 0]
    ELSE LET t == tally(Head(candles), first, direction)
             rest == count_trades(Tail(candles), first, direction)
         IN  [wins |-> t.wins + rest.wins, losses |-> t.losses + rest.losses]

(* round(n / d, 1) of a value given in tenths: the integer nearest to      *)
(* n / d.  The argument of round is a double: when n / d lies exactly      *)
(* between two tenths the double lies on either side of it, and tie_up     *)
(* says on which.                                                          *)
round_tenth(n, d, tie_up) ==
    LET q == n \div d
        r == n % d
    IN  IF 2 * r < d THEN q
        ELSE IF 2 * r > d THEN q + 1
        ELSE IF tie_up THEN q + 1 ELSE q

(* winrate_of without the total_trades > 0 test: no trade counts as a     *)
(* full win rate.                                                          *)
winrate_of_no_trades_full(wins, total_trades, tie_up) ==
    IF total_trades > 0 THEN round_tenth(wins * 1000, total_trades, tie_up) ELSE 1000

winrate_of(wins, total_trades, tie_up) ==
    IF total_trades > 0 THEN round_tenth(wins * 1000, total_trades, tie_up) ELSE 0

(* round(x, 2) of a price x in sixteenths of a point, in hundredths: the   *)
(* nearest hundredth.  A sixteenth is a double exactly, so is the tie      *)
(* (x = 2, 6, 10 or 14 mod 16), which round sends to the even hundredth.   *)
round2(x) ==
    LET q == (x * 100) \div 16
        r == (x * 100) % 16
    IN  IF 2 * r < 16 THEN q
        ELSE IF 2 * r > 16 THEN q + 1
        ELSE IF q % 2 = 0 THEN q ELSE q + 1

(* The dictionary appended to winrate_data. *)
trade_record(target_date, first, direction, wins, losses, tie_up) ==
    [date |-> strftime(target_date),
     first_candle |-> [open |-> round2(first.open), high |-> round2(first.high),
                       low |-> round2(first.low), close |-> round2(first.close),
                       range |-> round2(first.high - first.low),
                       direction |-> direction],
     trades |-> wins + losses,
     wins |-> wins,
     losses |-> losses,
     winrate |-> winrate_of(wins, wins + losses, tie_up)]

(* The record appended for a day whose frame gave candles_30s. *)
day_record(target_date, candles_30s, tie_up) ==
    LET first == candles_30s[1]
        direction == first_direction(first)
        count == count_trades(Tail(candles_30s), first, direction)
    IN  trade_record(target_date, first, direction, count.wins, count.losses, tie_up)

RECURSIVE SumOf(_, _)
SumOf(records, field) ==
    IF records = <<>> THEN 0 ELSE Head(records)[field] + SumOf(Tail(records), field)

(* overall whose total_days is the length of the window. *)
overall_total_days_window(records, tie_up) ==
    IF records # <<>>
    THEN [overall_winrate |-> round_tenth(SumOf(records, "winrate"), Len(records), tie_up),
          winning_days |-> Cardinality({i \in 1..Len(records) : records[i].winrate > 500}),
          total_days |-> days,
          total_wins |-> SumOf(records, "wins"),
          total_losses |-> SumOf(records, "losses"),
          daily_breakdown |-> records]
    ELSE [error |-> "No data available for the past 7 days"]

(* overall whose win rate is the pooled one, total_wins over all trades. *)
overall_pooled(records, tie_up) ==
    IF records # <<>>
    THEN [overall_winrate |->
              winrate_of(SumOf(records, "wins"),
                         SumOf(records, "wins") + SumOf(records, "losses"), tie_up),
          winning_days |-> Cardinality({i \in 1..Len(records) : records[i].winrate > 500}),
          total_days |-> Len(records),
          total_wins |-> SumOf(records, "wins"),
          total_losses |-> SumOf(records, "losses"),
          daily_breakdown |-> records]
    ELSE [error |-> "No data available for the past 7 days"]

(* overall that answers no record with a summary of zeros. *)
overall_zero_summary(records, tie_up) ==
    [overall_winrate |->
         IF records # <<>>
         THEN round_tenth(SumOf(records, "winrate"), Len(records), tie_up) ELSE 0,
     winning_days |-> Cardinality({i \in 1..Len(records) : records[i].winrate > 500}),
     total_days |-> Len(records),
     total_wins |-> SumOf(records, "wins"),
     total_losses |-> SumOf(records, "losses"),
     daily_breakdown |-> records]

(* The statistics over the records, or the error when there is none. *)
overall(records, tie_up) ==
    IF records # <<>>
    THEN [overall_winrate |-> round_tenth(SumOf(records, "winrate"), Len(records), tie_up),
          winning_days |-> Cardinality({i \in 1..Len(records) : records[i].winrate > 500}),
          total_days |-> Len(records),
          total_wins |-> SumOf(records, "wins"),
          total_losses |-> SumOf(records, "losses"),
          daily_breakdown |-> records]
    ELSE [error |-> "No data available for the past 7 days"]

(* The provider's answer for one day of the window: the first bar is one   *)
(* of RefBars (the first half of it is up, down, up with close = open,     *)
(* down with a mid price above the bar's high), each later bar one of      *)
(* LaterBars, one minute apart.                                            *)
RefBars ==
    {[open |-> 8, high |-> 12, low |-> 8, close |-> 12, volume |-> 1],
     [open |-> 12, high |-> 12, low |-> 8, close |-> 8, volume |-> 1],
     [open |-> 8, high |-> 12, low |-> 8, close |-> 4, volume |-> 1],
     [open |-> 16, high |-> 12, low |-> 8, close |-> 16, volume |-> 1]}

LaterBars == [open : {12}, high : {12, 16}, low : {4, 8}, close : {12}, volume : {1}]

DayFrame(f) ==
    [i \in DOMAIN f |-> Row(WindowOpen + (i - 1) * OneMinute, f[i])]

DayBars(n) ==
    {f \in [1..n -> RefBars \cup LaterBars] :
        \A i \in 1..n : IF i = 1 THEN f[i] \in RefBars ELSE f[i] \in LaterBars}

InitWinrate ==
    /\ DEPENDENCIES_AVAILABLE \in BOOLEAN
    /\ data = [raised |-> FALSE, frame |-> <<>>]
    /\ today = strptime([month |-> 6, day |-> 1])
    /\ request = [kind |-> "missing", month |-> 0, day |-> 0]
    /\ pc = "start"
    /\ df = <<>>
    /\ minutes = 0
    /\ result = <<>>
    /\ response = <<>>
    /\ fetches = 0
    /\ http = <<>>
    /\ day = 0
    /\ downloads = <<>>
    /\ winrate_data = <<>>
    /\ summary = <<>>

(* datetime.now(pacific).date() as a pass of the loop reads it: the date   *)
(* read in the pass before, or the day after it when midnight has passed   *)
(* during the download in between.                                         *)
clock(i, last) == IF i = 0 THEN {last} ELSE {last, last + 1}

(* One pass of `for i in range(days)`, i = day: the clock is read, the     *)
(* download of target_date raises, or gives an empty frame, or bars.       *)
EvaluateDay ==
    /\ pc \in {"start", "loop"}
    /\ DEPENDENCIES_AVAILABLE
    /\ day < days
    /\ today' \in clock(day, today)
    /\ downloads' = Append(downloads, today' - day)
    /\ \/ data' = [raised |-> TRUE, frame |-> <<>>]
       \/ \E n \in 0..MaxBars : \E f \in DayBars(n) :
             data' = [raised |-> FALSE, frame |-> DayFrame(f)]
    /\ LET candles_30s == create_30second_data(data'.frame)
       IN  /\ df' = data'.frame
           /\ result' = candles_30s
           /\ IF data'.raised \/ data'.frame = <<>> \/ Len(candles_30s) < 2
              THEN winrate_data' = winrate_data
              ELSE \E tie_up \in BOOLEAN :
                      winrate_data' =
                          Append(winrate_data, day_record(today' - day, candles_30s, tie_up))
    /\ fetches' = fetches + 1
    /\ day' = day + 1
    /\ pc' = "loop"
    /\ UNCHANGED <<DEPENDENCIES_AVAILABLE, minutes, response, request, http, summary>>

(* The return of calculate_first_candle_winrate. *)
Summarize ==
    /\ \/ /\ pc = "start" /\ ~DEPENDENCIES_AVAILABLE
          /\ summary' = [error |-> "Dependencies not available"]
       \/ /\ pc \in {"start", "loop"} /\ DEPENDENCIES_AVAILABLE /\ day = days
          /\ \E tie_up \in BOOLEAN : summary' = overall(winrate_data, tie_up)
    /\ pc' = "done"
    /\ UNCHANGED <<DEPENDENCIES_AVAILABLE, df, minutes, result, data, response,
                   fetches, requestVars, day, downloads, winrate_data>>

NextWinrate == EvaluateDay \/ Summarize

SpecWinrate == InitWinrate /\ [][NextWinrate]_vars

-----------------------------------------------------------------------------
(* The statistics of calculate_first_candle_winrate over days given by     *)
(* their counts.  A day of one-minute bars has up to 1440 of them, and     *)
(* the two halves of a bar count alike, so wins and losses are even and    *)
(* wins + losses <= 2 * 1440 - 2.                                          *)

TradeCounts == {0, 2, 4, 1000, 1002}

CountedBar == [open |-> 8, high |-> 12, low |-> 8, close |-> 12, volume |-> 1]

(* One pass of the loop: the day is skipped, or its record is appended. *)
EvaluateDayCounts ==
    /\ pc \in {"start", "loop"}
    /\ DEPENDENCIES_AVAILABLE
    /\ day < days
    /\ today' \in clock(day, today)
    /\ downloads' = Append(downloads, today' - day)
    /\ \/ winrate_data' = winrate_data
       \/ \E wins \in TradeCounts, losses \in TradeCounts, tie_up \in BOOLEAN :
             LET first == first_candle(Row(WindowOpen, CountedBar))
             IN  winrate_data' =
                    Append(winrate_data,
                           trade_record(today' - day, first, first_direction(first),
                                        wins, losses, tie_up))
    /\ fetches' = fetches + 1
    /\ day' = day + 1
    /\ pc' = "loop"
    /\ UNCHANGED <<DEPENDENCIES_AVAILABLE, df, minutes, result, data, response,
                   request, http, summary>>

NextSummary == EvaluateDayCounts \/ Summarize

SpecSummary == InitWinrate /\ [][NextSummary]_vars

Spec == Init /\ [][Next]_vars

-----------------------------------------------------------------------------
(* What the claims speak of.                                               *)

Called(m) == pc = "called" /\ minutes = m

Served == pc = "served" /\ "success" \in DOMAIN response

(* The aggregations of df in this state, as <<interval, output>>. *)
AggOutputs ==
    (IF pc = "called" /\ minutes \in {FiveMinutes, FifteenMinutes}
     THEN {<<minutes, result>>} ELSE {})
    \cup
    (IF Served
     THEN {<<FiveMinutes, response.data["5m"]>>, <<FifteenMinutes, response.data["15m"]>>}
     ELSE {})

(* The 30-second syntheses of df in this state. *)
SynthOutputs ==
    (IF Called(HalfMinute) THEN {result} ELSE {})
    \cup (IF Served THEN {response.data["30s"]} ELSE {})

OHLCInvariant(bar) ==
    /\ bar.high >= bar.open /\ bar.high >= bar.close
    /\ bar.low <= bar.open /\ bar.low <= bar.close

(* The rows of d whose time lies in the bucket that starts at label. *)
BucketOf(d, label, m) ==
    {i \in DOMAIN d : label <= d[i].timestamp /\ d[i].timestamp < label + m}

Earliest(d, I) == CHOOSE i \in I : \A j \in I : d[i].timestamp <= d[j].timestamp

Latest(d, I) == CHOOSE i \in I : \A j \in I : d[i].timestamp >= d[j].timestamp

RECURSIVE VolumeOver(_, _)
VolumeOver(d, I) ==
    IF I = {} THEN 0
    ELSE LET i == CHOOSE x \in I : TRUE IN d[i].volume + VolumeOver(d, I \ {i})

(* C1: every bar that the 5-minute or 15-minute aggregation outputs has    *)
(* the open of the earliest base bar of its bucket, the maximum high and   *)
(* the minimum low over the bucket, the close of its latest base bar and   *)
(* the sum of the bucket's volumes.                                        *)
C1_BucketAggregate ==
    \A run \in AggOutputs : \A j \in DOMAIN run[2] :
        LET bar == run[2][j]
            I == BucketOf(df, Instant(bar.timestamp), run[1])
        IN  /\ I # {}
            /\ bar.open = df[Earliest(df, I)].open
            /\ bar.high = Max({df[i].high : i \in I})
            /\ bar.low = Min({df[i].low : i \in I})
            /\ bar.close = df[Latest(df, I)].close
            /\ bar.volume = VolumeOver(df, I)

(* Two bars of one 5-minute bucket, with different opens, closes, highs    *)
(* and lows, became one bar.                                               *)
C1_Witness ==
    /\ Called(FiveMinutes)
    /\ Len(df) = 2 /\ Len(result) = 1
    /\ df[1].open # df[2].open /\ df[1].close # df[2].close
    /\ df[1].high > df[2].high /\ df[1].low > df[2].low
    /\ result[1].open = df[1].open /\ result[1].close = df[2].close
    /\ result[1].volume = df[1].volume + df[2].volume

(* C2 as stated: every aggregated bar satisfies high >= max(open, close)   *)
(* and low <= min(open, close), whatever the base bars are.                *)
C2_Original ==
    \A run \in AggOutputs : \A j \in DOMAIN run[2] : OHLCInvariant(run[2][j])

(* C2 amended: when every base bar satisfies the OHLC invariant, so does   *)
(* every bar of the 5-minute and 15-minute aggregation.                    *)
C2_AggregateInvariant ==
    (\A i \in DOMAIN df : OHLCInvariant(df[i]))
        => \A run \in AggOutputs : \A j \in DOMAIN run[2] : OHLCInvariant(run[2][j])

(* Two valid bars with different highs and lows were aggregated into one. *)
C2_Witness ==
    /\ Called(FiveMinutes)
    /\ Len(df) = 2 /\ Len(result) = 1
    /\ \A i \in DOMAIN df : OHLCInvariant(df[i])
    /\ df[1].high < df[2].high /\ df[1].low < df[2].low
    /\ OHLCInvariant(result[1])

(* The mid price of a base bar, a quarter of the sum of its four prices. *)
MidOf(row) == CHOOSE x \in 0..(2 * Max(Prices)) : 4 * x = row.open + row.high + row.low + row.close

IsHalf(half, volume) == 2 * half <= volume /\ volume < 2 * half + 2

IsFirstHalf(row, bar) ==
    /\ Instant(bar.timestamp) = row.timestamp
    /\ bar.open = row.open
    /\ bar.high = Max({row.high, MidOf(row)})
    /\ bar.low = Min({row.low, MidOf(row)})
    /\ bar.close = MidOf(row)
    /\ IsHalf(bar.volume, row.volume)

IsSecondHalf(row, bar) ==
    /\ Instant(bar.timestamp) = row.timestamp + 1
    /\ bar.open = MidOf(row)
    /\ bar.high = Max({row.high, MidOf(row)})
    /\ bar.low = Min({row.low, MidOf(row)})
    /\ bar.close = row.close
    /\ IsHalf(bar.volume, row.volume)

(* C3: for every base bar the 30-second synthesis emits a first bar at the *)
(* bar's time (open, max(high, mid), min(low, mid), mid, floor(volume/2))  *)
(* followed by a second bar 30 seconds later (mid, max(high, mid),         *)
(* min(low, mid), close, floor(volume/2)), mid = (o + h + l + c) / 4.      *)
C3_HalfBars ==
    \A out \in SynthOutputs : \A i \in DOMAIN df :
        \E j \in DOMAIN out :
            /\ j + 1 \in DOMAIN out
            /\ IsFirstHalf(df[i], out[j])
            /\ IsSecondHalf(df[i], out[j + 1])

(* A bar whose mid price is none of its four prices, and one of odd        *)
(* volume, were split.                                                     *)
C3_Witness ==
    /\ Called(HalfMinute)
    /\ Len(df) = 2 /\ Len(result) = 4
    /\ MidOf(df[1]) \notin {df[1].open, df[1].high, df[1].low, df[1].close}
    /\ df[2].volume = 3 /\ result[3].volume = 1 /\ result[4].volume = 1
    /\ result[1].close = MidOf(df[1]) /\ result[2].open = MidOf(df[1])

(* C4 as stated: both synthesized bars of every base bar satisfy the OHLC  *)
(* invariant, whatever the base bar is.                                    *)
C4_Original ==
    \A out \in SynthOutputs : \A j \in DOMAIN out : OHLCInvariant(out[j])

(* C4 amended: both bars synthesized from a base bar that itself satisfies *)
(* high >= max(open, close) and low <= min(open, close) satisfy it too.    *)
C4_HalfBarInvariant ==
    \A out \in SynthOutputs : \A i \in DOMAIN df :
        OHLCInvariant(df[i]) =>
            /\ 2 * i \in DOMAIN out
            /\ OHLCInvariant(out[2 * i - 1])
            /\ OHLCInvariant(out[2 * i])

(* A valid bar that moves (open above close, mid strictly between low and  *)
(* high) was split into two valid bars.                                    *)
C4_Witness ==
    /\ Called(HalfMinute)
    /\ Len(df) = 1 /\ Len(result) = 2
    /\ OHLCInvariant(df[1]) /\ df[1].open > df[1].close
    /\ df[1].low < result[1].close /\ result[1].close < df[1].high
    /\ OHLCInvariant(result[1]) /\ OHLCInvariant(result[2])

RECURSIVE TotalVolume(_)
TotalVolume(rows) == IF rows = <<>> THEN 0 ELSE Head(rows).volume + TotalVolume(Tail(rows))

(* C5: the volumes of the two bars synthesized from a base bar sum to at   *)
(* most the bar's volume, with equality exactly when that volume is even;  *)
(* so the 30-second series' total volume is at most the base series'.      *)
C5_HalfVolumes ==
    \A out \in SynthOutputs :
        /\ \A i \in DOMAIN df :
              /\ 2 * i \in DOMAIN out
              /\ out[2 * i - 1].volume + out[2 * i].volume <= df[i].volume
              /\ (out[2 * i - 1].volume + out[2 * i].volume = df[i].volume)
                    <=> (df[i].volume % 2 = 0)
        /\ TotalVolume(out) <= TotalVolume(df)

(* A bar of even volume kept it and a bar of odd volume lost one unit. *)
C5_Witness ==
    /\ Called(HalfMinute)
    /\ Len(df) = 2 /\ Len(result) = 4
    /\ df[1].volume = 2 /\ result[1].volume + result[2].volume = 2
    /\ df[2].volume = 3 /\ result[3].volume + result[4].volume = 2
    /\ TotalVolume(result) = 4 /\ TotalVolume(df) = 5

(* C6: N base bars give exactly 2N bars, the pair made from the i-th base  *)
(* bar (counted from 0) at positions 2i and 2i+1.                          *)
C6_PairPositions ==
    \A out \in SynthOutputs :
        /\ Len(out) = 2 * Len(df)
        /\ \A i \in DOMAIN df :
              /\ Instant(out[2 * i - 1].timestamp) = df[i].timestamp
              /\ out[2 * i - 1].open = df[i].open
              /\ Instant(out[2 * i].timestamp) = df[i].timestamp + 1
              /\ out[2 * i].close = df[i].close

(* Two base bars that differ in open and close gave four bars. *)
C6_Witness ==
    /\ Called(HalfMinute)
    /\ Len(df) = 2 /\ Len(result) = 4
    /\ df[1].open # df[2].open /\ df[1].close # df[2].close
    /\ result[1].open = df[1].open /\ result[3].open = df[2].open
    /\ result[2].close = df[1].close /\ result[4].close = df[2].close

StrictlyIncreasing(out) ==
    \A j \in 1..(Len(out) - 1) : Instant(out[j].timestamp) < Instant(out[j + 1].timestamp)

BaseIncreasing == \A i \in 1..(Len(df) - 1) : df[i].timestamp < df[i + 1].timestamp

(* Consecutive base bars are more than 30 seconds apart. *)
BaseSpaced == \A i \in 1..(Len(df) - 1) : df[i + 1].timestamp - df[i].timestamp > 1

(* C7 as stated: for a base series of strictly increasing timestamps the   *)
(* 30s, the 5m and the 15m outputs each have strictly increasing           *)
(* timestamps.                                                             *)
C7_Original ==
    BaseIncreasing =>
        /\ \A out \in SynthOutputs : StrictlyIncreasing(out)
        /\ \A run \in AggOutputs : StrictlyIncreasing(run[2])

(* C7 amended: the 5m and 15m outputs of a base series of strictly         *)
(* increasing timestamps are strictly increasing, and so is the 30s output *)
(* when consecutive base bars are more than 30 seconds apart.              *)
C7_Monotonic ==
    /\ BaseIncreasing => \A run \in AggOutputs : StrictlyIncreasing(run[2])
    /\ BaseSpaced => \A out \in SynthOutputs : StrictlyIncreasing(out)

(* Two bars one minute apart gave four 30-second bars 30 seconds apart. *)
C7_Witness ==
    /\ Called(HalfMinute)
    /\ Len(df) = 2 /\ df[2].timestamp = df[1].timestamp + 2
    /\ Len(result) = 4 /\ StrictlyIncreasing(result)
    /\ Instant(result[4].timestamp) = df[1].timestamp + 3

(* C8: every 5m or 15m output bar starts at window_start + k * interval    *)
(* for an integer k, also when the base bars lie outside the window.       *)
C8_WindowAligned ==
    \A run \in AggOutputs : \A j \in DOMAIN run[2] :
        (Instant(run[2][j].timestamp) - WindowOpen) % run[1] = 0

(* The day had bars before 06:30 only, so they were aggregated as they     *)
(* were: the 06:29 bar is in the 5m bucket of 06:25, the 15m one of 06:15. *)
C8_Witness ==
    /\ Served
    /\ Len(df) = 1 /\ df[1].timestamp = WindowOpen - 2
    /\ Instant(response.data["5m"][1].timestamp) = WindowOpen - FiveMinutes
    /\ Instant(response.data["15m"][1].timestamp) = WindowOpen - FifteenMinutes

(* The start of the bucket of the window-aligned grid that holds time t. *)
BucketStart(t, m) == CHOOSE b \in (t - m + 1)..t : (b - WindowOpen) % m = 0

OutputStarts(out) == {Instant(out[j].timestamp) : j \in DOMAIN out}

(* C9: the aggregation outputs exactly one bar for each bucket that holds  *)
(* a base bar and none for a bucket that holds none.                       *)
C9_NonEmptyBuckets ==
    \A run \in AggOutputs :
        /\ OutputStarts(run[2]) = {BucketStart(df[i].timestamp, run[1]) : i \in DOMAIN df}
        /\ Len(run[2]) = Cardinality(OutputStarts(run[2]))

(* Bars at 06:30 and 06:45, two empty 5-minute buckets between them, gave  *)
(* two 5-minute bars.                                                      *)
C9_Witness ==
    /\ Called(FiveMinutes)
    /\ Len(df) = 2
    /\ df[2].timestamp - df[1].timestamp = 3 * FiveMinutes
    /\ Len(result) = 2
    /\ Instant(result[2].timestamp) - Instant(result[1].timestamp) = 3 * FiveMinutes

(* C10: process_timeframe with minutes = 1 returns the base bars as they   *)
(* are: as many, in the same order, with the same prices and volume and    *)
(* the same instants.                                                      *)
C10_OneMinuteIdentity ==
    Called(OneMinute) =>
        /\ Len(result) = Len(df)
        /\ \A i \in DOMAIN df :
              /\ Instant(result[i].timestamp) = df[i].timestamp
              /\ result[i].open = df[i].open
              /\ result[i].high = df[i].high
              /\ result[i].low = df[i].low
              /\ result[i].close = df[i].close
              /\ result[i].volume = df[i].volume

(* Two different bars within one minute came back as the same two bars. *)
C10_Witness ==
    /\ Called(OneMinute)
    /\ Len(df) = 2 /\ df[2].timestamp = df[1].timestamp + 1
    /\ df[1].open # df[2].open
    /\ Len(result) = 2
    /\ result[1].open = df[1].open /\ result[2].open = df[2].open
    /\ Instant(result[2].timestamp) = df[2].timestamp

(* An interval the aggregator's contract excludes: not positive, or not a  *)
(* whole number of minutes (0.5 apart, which selects the synthesis).       *)
InvalidInterval(m) == m <= 0 \/ (m % OneMinute # 0 /\ m # HalfMinute)

(* C11: process_timeframe rejects a target interval that is non-positive   *)
(* or no whole multiple of the base interval: no call with such an         *)
(* interval returns a bar sequence.                                        *)
C11_InvalidIntervalRejected ==
    ~(pc = "called" /\ InvalidInterval(minutes))

(* The volume of the two 30-second bars made from the base bars I. *)
RECURSIVE SyntheticVolumeOver(_, _)
SyntheticVolumeOver(out, I) ==
    IF I = {} THEN 0
    ELSE LET i == CHOOSE x \in I : TRUE
         IN  out[2 * i - 1].volume + out[2 * i].volume + SyntheticVolumeOver(out, I \ {i})

(* C12: in the three-timeframe result the 5m and 15m bars are built from   *)
(* the base bars, not from the synthesized 30-second bars: a bar's volume  *)
(* is the sum of the base volumes of its bucket, which is more than the    *)
(* halved volumes add up to as soon as one base volume is odd.             *)
C12_AggregatedFromBase ==
    Served =>
        \A run \in {<<FiveMinutes, response.data["5m"]>>,
                    <<FifteenMinutes, response.data["15m"]>>} :
            \A j \in DOMAIN run[2] :
                LET bar == run[2][j]
                    I == BucketOf(df, Instant(bar.timestamp), run[1])
                IN  /\ bar.volume = VolumeOver(df, I)
                    /\ (\E i \in I : df[i].volume % 2 = 1)
                          => bar.volume > SyntheticVolumeOver(response.data["30s"], I)

(* Base volumes 3 and 2 in one bucket: the 5m and 15m bars carry 5, the    *)
(* four 30-second bars 4.                                                  *)
C12_Witness ==
    /\ Served
    /\ Len(df) = 2 /\ df[1].volume = 3 /\ df[2].volume = 2
    /\ Len(response.data["5m"]) = 1 /\ response.data["5m"][1].volume = 5
    /\ Len(response.data["15m"]) = 1 /\ response.data["15m"][1].volume = 5
    /\ TotalVolume(response.data["30s"]) = 4

(* The provider answered, with no bar at all. *)
EmptyFetch == DEPENDENCIES_AVAILABLE /\ ~data.raised /\ data.frame = <<>>

(* C13: an empty base series gives an empty 30s, 5m and 15m output, and    *)
(* no exception: the calls return, and get_market_data reports no data     *)
(* rather than a failed fetch.                                             *)
C13_EmptyBase ==
    /\ (pc = "called" /\ df = <<>> /\ minutes \in {HalfMinute, FiveMinutes, FifteenMinutes})
          => result = <<>>
    /\ (pc = "served" /\ EmptyFetch)
          => /\ \A k \in {"30s", "5m", "15m"} : response.data[k] = <<>>
             /\ response.error = "No data available"

(* get_market_data has answered an empty fetch. *)
C13_Witness ==
    /\ pc = "served" /\ EmptyFetch
    /\ DOMAIN response.data = {"30s", "5m", "15m"}
    /\ response.data["30s"] = <<>> /\ response.data["5m"] = <<>>
    /\ response.data["15m"] = <<>>

InWindow(r) == WindowOpen <= r.timestamp /\ r.timestamp <= WindowClose

AllInWindow(d) == \A i \in 1..Len(d) : InWindow(d[i])

SomeInWindow(d) == \E i \in 1..Len(d) : InWindow(d[i])

(* C17 as stated: every base bar that feeds the three outputs lies in the  *)
(* trading window 06:30 to 13:00.                                          *)
C17_Original == Served => AllInWindow(df)

(* C17: when the fetched series has a bar inside the trading window, the   *)
(* base bars that feed the three outputs are exactly its bars inside the   *)
(* window; when it has none, all fetched bars feed the outputs.            *)
C17_WindowFiltered ==
    Served =>
       /\ response.data = timeframes(TRUE, df)
       /\ SomeInWindow(data.frame) =>
             /\ AllInWindow(df)
             /\ df = SelectSeq(data.frame, InWindow)
       /\ ~SomeInWindow(data.frame) => df = data.frame

(* A fetch with the 06:29 bar and the 06:30 bar: only the second feeds     *)
(* the outputs.                                                            *)
C17_Witness ==
    /\ Served
    /\ Len(data.frame) = 2 /\ Len(df) = 1
    /\ data.frame[1].timestamp = 778 /\ df[1].timestamp = WindowOpen
    /\ Len(response.data["5m"]) = 1

Answered == pc = "answered"

(* C14: every answer of the single-date path carries a data mapping with   *)
(* the three keys 30s, 5m and 15m, whatever its outcome.                   *)
C14_DataKeys ==
    Answered =>
       /\ "data" \in DOMAIN http.body
       /\ DOMAIN http.body.data = {"30s", "5m", "15m"}

(* C15: an empty fetch is answered with the no-data result and empty bar   *)
(* sequences, a fetch that raises with a failure that is not the no-data   *)
(* result.                                                                 *)
C15_EmptyVersusRaised ==
    (Answered /\ DEPENDENCIES_AVAILABLE /\ ~(date_given(request) /\ ~strptime_ok(request)))
    => /\ (~data.raised /\ data.frame = <<>>)
             => /\ http.body.error = "No data available"
                /\ http.body.data = no_data
       /\ data.raised
             => /\ "error" \in DOMAIN http.body
                /\ http.body.error = "Data fetch failed"
                /\ http.body.error # "No data available"
                /\ http.status # 200

(* The fetch of a valid request has raised and the failure is answered. *)
C15_Witness ==
    /\ Answered /\ DEPENDENCIES_AVAILABLE /\ data.raised
    /\ strptime_ok(request)
    /\ http.status = 404
    /\ http.body.error = "Data fetch failed"

(* C16: a request whose date parameter does not parse is answered with the *)
(* invalid-date error, without a fetch and without a computed timeframe.   *)
C16_InvalidDate ==
    (Answered /\ date_given(request) /\ ~strptime_ok(request))
    => /\ http.status = 400
       /\ http.body.error = "Invalid date format"
       /\ fetches = 0
       /\ response = <<>>
       /\ df = <<>>
       /\ "data" \notin DOMAIN http.body

(* 31 June is answered as invalid although the provider has bars. *)
C16_Witness ==
    /\ Answered /\ DEPENDENCIES_AVAILABLE
    /\ request.kind = "ymd" /\ request.month = 6 /\ request.day = 31
    /\ ~data.raised /\ data.frame # <<>>
    /\ http.status = 400 /\ fetches = 0

(* The latest day up to n that is a Monday to Friday. *)
BusinessDay(n) == CHOOSE b \in (n - 2)..n :
                     /\ weekday(b) < 5
                     /\ \A c \in (b + 1)..n : weekday(c) >= 5

(* C18: with no date given, the target date is today when today is Monday  *)
(* to Friday and the Friday before otherwise, never a Saturday or Sunday.  *)
C18_DefaultBusinessDay ==
    (Answered /\ ~date_given(request))
    => /\ "date" \in DOMAIN http.body
       /\ http.body.date = strftime(BusinessDay(today))
       /\ \E n \in (today - 2)..today : weekday(n) < 5 /\ http.body.date = strftime(n)

(* The last pass of the loop appended a record: the record of its date. *)
DayEvaluated ==
    /\ pc = "loop" /\ ~data.raised /\ data.frame # <<>>
    /\ winrate_data # <<>>
    /\ winrate_data[Len(winrate_data)].date = strftime(downloads[Len(downloads)])

(* v hundredths of a point is the hundredth nearest to x sixteenths. *)
NearestHundredth(v, x) ==
    /\ 2 * (v * 16 - x * 100) <= 16
    /\ 2 * (x * 100 - v * 16) <= 16

LastRecord == winrate_data[Len(winrate_data)]

HighBreak(c, ref) == c.high > ref.high

LowBreak(c, ref) == c.low < ref.low

(* C19: the reference bar is the first synthesized bar, up iff its close   *)
(* >= its open; wins are the later bars that break the high when up and    *)
(* those that break only the low when down, losses the later bars that     *)
(* break the high when down and those that break only the low when up.     *)
C19_CountingRule ==
    DayEvaluated =>
       LET c == create_30second_data(data.frame)
           ref == c[1]
           up == ref.close >= ref.open
           later == 2..Len(c)
           rec == LastRecord
       IN  /\ NearestHundredth(rec.first_candle.open, ref.open)
           /\ NearestHundredth(rec.first_candle.close, ref.close)
           /\ NearestHundredth(rec.first_candle.high, ref.high)
           /\ NearestHundredth(rec.first_candle.low, ref.low)
           /\ rec.first_candle.direction = (IF up THEN "up" ELSE "down")
           /\ rec.wins = Cardinality({j \in later :
                            \/ HighBreak(c[j], ref) /\ up
                            \/ ~HighBreak(c[j], ref) /\ LowBreak(c[j], ref) /\ ~up})
           /\ rec.losses = Cardinality({j \in later :
                            \/ HighBreak(c[j], ref) /\ ~up
                            \/ ~HighBreak(c[j], ref) /\ LowBreak(c[j], ref) /\ up})

(* A day whose reference bar has close = open (up) and whose next bar      *)
(* breaks only the low: two losses, one per half.                          *)
C19_Witness ==
    /\ DayEvaluated
    /\ LastRecord.first_candle.close = LastRecord.first_candle.open
    /\ LastRecord.first_candle.direction = "up"
    /\ Len(data.frame) = 2
    /\ data.frame[2].low < data.frame[1].low /\ data.frame[2].high = data.frame[1].high
    /\ LastRecord.wins = 0 /\ LastRecord.losses = 2

(* C20: each bar after the reference bar adds at most 1 to wins + losses;  *)
(* a bar that breaks both the high and the low counts once, by the         *)
(* high-break rule: as a win when the reference bar is up, as a loss when  *)
(* it is down, like the bars that break only the high.                     *)
C20_CountedOnce ==
    DayEvaluated =>
       LET c == create_30second_data(data.frame)
           ref == c[1]
           up == ref.close >= ref.open
           later == 2..Len(c)
           both == {j \in later : HighBreak(c[j], ref) /\ LowBreak(c[j], ref)}
           high_only == {j \in later : HighBreak(c[j], ref) /\ ~LowBreak(c[j], ref)}
           low_only == {j \in later : ~HighBreak(c[j], ref) /\ LowBreak(c[j], ref)}
           by_high == Cardinality(both) + Cardinality(high_only)
           by_low == Cardinality(low_only)
           rec == LastRecord
       IN  /\ rec.trades = rec.wins + rec.losses
           /\ rec.trades = Cardinality(both) + Cardinality(high_only) + Cardinality(low_only)
           /\ rec.trades <= Len(c) - 1
           /\ up => rec.wins = by_high /\ rec.losses = by_low
           /\ ~up => rec.losses = by_high /\ rec.wins = by_low
           /\ \A j \in later :
                 LET t == tally(c[j], ref, first_direction(ref))
                 IN  /\ t.wins + t.losses <= 1
                     /\ j \in both => t = (IF up THEN [wins |-> 1, losses |-> 0]
                                                 ELSE [wins |-> 0, losses |-> 1])

(* A day whose second bar breaks both the high and the low of an up        *)
(* reference bar: its two halves are two wins and nothing else.            *)
C20_Witness ==
    /\ DayEvaluated
    /\ LastRecord.first_candle.direction = "up"
    /\ Len(data.frame) = 2
    /\ data.frame[2].high > data.frame[1].high /\ data.frame[2].low < data.frame[1].low
    /\ LastRecord.trades = 2 /\ LastRecord.wins = 2 /\ LastRecord.losses = 0

Summarized == pc = "done" /\ "total_days" \in DOMAIN summary

(* C21: a pass of the loop appends one record exactly when its download    *)
(* did not fail and gave at least 2 synthesized bars, and leaves the       *)
(* records alone otherwise; total_days is the number of records of         *)
(* daily_breakdown.                                                        *)
C21_RecordPerGoodDay ==
    [][ /\ pc' = "loop" =>
              IF ~data'.raised /\ Len(create_30second_data(data'.frame)) >= 2
              THEN /\ Len(winrate_data') = Len(winrate_data) + 1
                   /\ SubSeq(winrate_data', 1, Len(winrate_data)) = winrate_data
              ELSE winrate_data' = winrate_data
        /\ (pc' = "done" /\ "total_days" \in DOMAIN summary') =>
              /\ summary'.daily_breakdown = winrate_data
              /\ summary'.total_days = Len(winrate_data) ]_vars

(* A window with one recorded day and the others skipped. *)
C21_Witness ==
    /\ Summarized
    /\ fetches = days
    /\ summary.total_days = 1
    /\ Len(summary.daily_breakdown) = 1

(* C22: the downloads are those of the days of the window, each once, from *)
(* the most recent day backwards, whatever the earlier days gave; the      *)
(* evaluator returns after the download of every day.                      *)
C22_EachDayOnce ==
    /\ Len(downloads) = day /\ fetches = day
    /\ \A i \in DOMAIN downloads : downloads[i] = downloads[1] - (i - 1)
    /\ (pc = "done" /\ DEPENDENCIES_AVAILABLE) => Len(downloads) = days

Records == {winrate_data[i] : i \in 1..Len(winrate_data)}

(* C23 as stated: the win rate of a day is exactly wins / (wins + losses)  *)
(* * 100, or 0 without a trade, and lies between 0 and 100.                *)
C23_Original ==
    \A rec \in Records :
       /\ rec.trades > 0 => rec.winrate * rec.trades = rec.wins * 1000
       /\ rec.trades = 0 => rec.winrate = 0
       /\ 0 <= rec.winrate /\ rec.winrate <= 1000

(* C23: the win rate of a day is wins / (wins + losses) * 100 rounded to   *)
(* one decimal place, or 0 without a trade, and lies between 0 and 100.    *)
C23_WinrateRounded ==
    \A rec \in Records :
       /\ rec.trades = rec.wins + rec.losses
       /\ rec.trades > 0 =>
             /\ 2 * (rec.winrate * rec.trades - rec.wins * 1000) <= rec.trades
             /\ 2 * (rec.wins * 1000 - rec.winrate * rec.trades) <= rec.trades
       /\ rec.trades = 0 => rec.winrate = 0
       /\ 0 <= rec.winrate /\ rec.winrate <= 1000

(* A day of 2 wins in 6 trades is recorded at 33.3, beside a day without a *)
(* trade recorded at 0.                                                    *)
C23_Witness ==
    /\ \E rec \in Records : rec.wins = 2 /\ rec.losses = 4 /\ rec.winrate = 333
    /\ \E rec \in Records : rec.trades = 0 /\ rec.winrate = 0

(* Sum of the reported win rates of the days. *)
RateSum == SumOf(winrate_data, "winrate")

(* C24 as stated: the overall win rate is exactly the unweighted mean of   *)
(* the per-day win rates.                                                  *)
C24_Original ==
    Summarized => summary.overall_winrate * summary.total_days = RateSum

(* C24: the overall win rate is the unweighted mean of the reported        *)
(* per-day win rates, rounded to one decimal place; every day weighs the   *)
(* same whatever its trade count.                                          *)
C24_UnweightedMean ==
    Summarized =>
       /\ 2 * (summary.overall_winrate * summary.total_days - RateSum) <= summary.total_days
       /\ 2 * (RateSum - summary.overall_winrate * summary.total_days) <= summary.total_days

(* A day of 2 wins and a day of 1000 losses: the mean of 100 and 0 is 50,  *)
(* where the pooled rate is 0.2.                                           *)
C24_Witness ==
    /\ Summarized
    /\ summary.total_days = 2
    /\ summary.total_wins = 2 /\ summary.total_losses = 1000
    /\ summary.overall_winrate = 500

(* C25: winning_days is the number of evaluated days whose win rate        *)
(* wins / (wins + losses) * 100 is above 50, the days with wins > losses.  *)
C25_WinningDays ==
    Summarized =>
       /\ summary.winning_days =
             Cardinality({i \in 1..Len(winrate_data) :
                             winrate_data[i].trades > 0
                             /\ winrate_data[i].wins * 100 > 50 * winrate_data[i].trades})
       /\ summary.winning_days =
             Cardinality({i \in 1..Len(winrate_data) :
                             winrate_data[i].wins > winrate_data[i].losses})

MidWithin(row) == row.low <= MidOf(row) /\ MidOf(row) <= row.high

KeepsExtremes(row, first, second) ==
    /\ first.high = row.high /\ first.low = row.low
    /\ second.high = row.high /\ second.low = row.low

(* C26 as stated: the mid price of every base bar lies between its low and *)
(* its high, so both synthesized bars keep the original high and low.      *)
C26_Original ==
    \A out \in SynthOutputs : \A i \in DOMAIN df :
        /\ MidWithin(df[i])
        /\ KeepsExtremes(df[i], out[2 * i - 1], out[2 * i])

(* C26: for every base bar that satisfies high >= max(open, close) and     *)
(* low <= min(open, close), the mid price lies between its low and its     *)
(* high and both synthesized bars keep the original high and low.          *)
C26_MidWithinRange ==
    \A out \in SynthOutputs : \A i \in DOMAIN df :
        OHLCInvariant(df[i]) =>
            /\ MidWithin(df[i])
            /\ 2 * i \in DOMAIN out
            /\ KeepsExtremes(df[i], out[2 * i - 1], out[2 * i])

(* A valid rising bar whose mid is strictly inside its range was split     *)
(* into two bars of the same high and low.                                 *)
C26_Witness ==
    /\ Called(HalfMinute)
    /\ Len(df) = 1 /\ Len(result) = 2
    /\ OHLCInvariant(df[1]) /\ df[1].open < df[1].close
    /\ df[1].low < MidOf(df[1]) /\ MidOf(df[1]) < df[1].high
    /\ KeepsExtremes(df[1], result[1], result[2])

(* C27: the second half of the first base bar has the reference bar's high *)
(* and low and is never a win or a loss; a day of N base bars has wins +   *)
(* losses <= 2N - 2, and a day of one base bar is recorded with 0 trades   *)
(* and a win rate of 0.                                                    *)
C27_TwinNeverCounts ==
    DayEvaluated =>
       LET c == create_30second_data(data.frame)
           rec == LastRecord
       IN  /\ c[2].high = c[1].high /\ c[2].low = c[1].low
           /\ ~HighBreak(c[2], c[1]) /\ ~LowBreak(c[2], c[1])
           /\ rec.wins + rec.losses <= 2 * Len(data.frame) - 2
           /\ rec.wins + rec.losses =
                 Cardinality({j \in 3..Len(c) : HighBreak(c[j], c[1]) \/ LowBreak(c[j], c[1])})
           /\ Len(data.frame) = 1 => (rec.trades = 0 /\ rec.winrate = 0)

(* A day of a single base bar has its record, with no trade. *)
C27_Witness ==
    /\ DayEvaluated
    /\ Len(data.frame) = 1 /\ Len(result) = 2
    /\ LastRecord.trades = 0 /\ LastRecord.winrate = 0

(* The output bars whose bucket holds base bar i. *)
BarsHolding(run, i) ==
    {j \in DOMAIN run[2] : i \in BucketOf(df, Instant(run[2][j].timestamp), run[1])}

(* C28: every base bar lies in the bucket of exactly one 5m bar and of     *)
(* exactly one 15m bar, and the volumes of the 5m output and of the 15m    *)
(* output each add up to the volume of the base bars.                      *)
C28_VolumeConserved ==
    \A run \in AggOutputs :
        /\ \A i \in DOMAIN df : Cardinality(BarsHolding(run, i)) = 1
        /\ TotalVolume(run[2]) = TotalVolume(df)

(* Bars of volume 3 and 2 in two 5-minute buckets of one 15-minute bucket. *)
C28_Witness ==
    /\ Served
    /\ Len(df) = 2 /\ df[1].volume = 3 /\ df[2].volume = 2
    /\ Len(response.data["5m"]) = 2 /\ Len(response.data["15m"]) = 1
    /\ response.data["5m"][1].volume = 3 /\ response.data["5m"][2].volume = 2
    /\ response.data["15m"][1].volume = 5

(* Output bars read back as a frame. *)
AsFrame(out) == [j \in DOMAIN out |-> [out[j] EXCEPT !.timestamp = Instant(@)]]

(* C29: aggregating the 5m output to 15 minutes by the same rule gives the *)
(* 15m output: each 15m bar opens with the first 5m bar of its bucket,     *)
(* closes with the last, has their highest high, lowest low and summed     *)
(* volume, and no other bar comes out.                                     *)
C29_Composes ==
    Served =>
       LET five == AsFrame(response.data["5m"])
           fifteen == response.data["15m"]
       IN  /\ to_records(resample(five, FifteenMinutes)) = fifteen
           /\ \A j \in DOMAIN fifteen :
                 LET I == BucketOf(five, Instant(fifteen[j].timestamp), FifteenMinutes)
                 IN  /\ I # {}
                     /\ fifteen[j].open = five[Earliest(five, I)].open
                     /\ fifteen[j].high = Max({five[k].high : k \in I})
                     /\ fifteen[j].low = Min({five[k].low : k \in I})
                     /\ fifteen[j].close = five[Latest(five, I)].close
                     /\ fifteen[j].volume = VolumeOver(five, I)
           /\ \A k \in DOMAIN five : \E j \in DOMAIN fifteen :
                 k \in BucketOf(five, Instant(fifteen[j].timestamp), FifteenMinutes)

(* Two 5m bars of different prices in one 15-minute bucket and the 15m bar *)
(* that both ways of aggregating give.                                     *)
C29_Witness ==
    /\ Served
    /\ Len(response.data["5m"]) = 2 /\ Len(response.data["15m"]) = 1
    /\ response.data["5m"][1].open # response.data["5m"][2].open
    /\ response.data["5m"][1].close # response.data["5m"][2].close
    /\ response.data["5m"][1].high < response.data["5m"][2].high
    /\ response.data["15m"][1].open = response.data["5m"][1].open
    /\ response.data["15m"][1].close = response.data["5m"][2].close
    /\ response.data["15m"][1].high = response.data["5m"][2].high

SummaryKeys ==
    {"overall_winrate", "winning_days", "total_days", "total_wins", "total_losses",
     "daily_breakdown"}

(* C30: when no day of the window gave a record the evaluator returns the  *)
(* error result alone, with none of the summary keys; a summary is only    *)
(* ever returned over at least one record.                                 *)
C30_NoRecordsError ==
    /\ (pc = "done" /\ DEPENDENCIES_AVAILABLE /\ winrate_data = <<>>) =>
          /\ DOMAIN summary = {"error"}
          /\ DOMAIN summary \cap SummaryKeys = {}
          /\ summary.error = "No data available for the past 7 days"
    /\ (pc = "done" /\ DOMAIN summary \cap SummaryKeys # {}) =>
          /\ DOMAIN summary = SummaryKeys
          /\ winrate_data # <<>>
          /\ summary.total_days >= 1

(* Every day of the window was attempted and none gave a record. *)
C30_Witness ==
    /\ pc = "done" /\ DEPENDENCIES_AVAILABLE
    /\ fetches = days /\ day = days
    /\ winrate_data = <<>>
    /\ "error" \in DOMAIN summary

====
